---- MODULE Spec2Model ----
(***************************************************************************)
(* Model of QueryCompiler (src/src/querycompiler.ts).                      *)
(*                                                                         *)
(* A compiled text is modelled as the sequence of its tokens, in the order *)
(* the code concatenates them; the blanks that join(" ") puts between the  *)
(* fragments are not tokens.  A JavaScript value is a record [t, n, items]:*)
(* t is its type tag, n its payload when it is a scalar, items its         *)
(* elements when it is an array.  A thrown Error is the field err of the   *)
(* record an operator returns ("" when nothing was thrown); the value      *)
(* array as it stands at the throw is kept, since this.values keeps what   *)
(* was pushed before the throw.                                            *)
(***************************************************************************)
EXTENDS Integers, Sequences, FiniteSets, TLC

VARIABLES description, connection, compilers, results

vars == <<description, connection, compilers, results>>

(***************************************************************************)
(* Bounds.                                                                 *)
(***************************************************************************)
MaxCompilers == 2
MaxCalls == 2

(***************************************************************************)
(* JavaScript values.                                                      *)
(***************************************************************************)
Num(n) == [t |-> "number", n |-> n, items |-> <<>>]
Bool(b) == [t |-> "boolean", n |-> IF b THEN 1 ELSE 0, items |-> <<>>]
Date(ts) == [t |-> "date", n |-> ts, items |-> <<>>]
DateText(ts) == [t |-> "string", n |-> ts, items |-> <<>>]
Null == [t |-> "null", n |-> 0, items |-> <<>>]
Undefined == [t |-> "undefined", n |-> 0, items |-> <<>>]
Arr(items) == [t |-> "array", n |-> 0, items |-> items]

IsArray(value) == value.t = "array"
IsNullish(value) == value.t = "undefined" \/ value.t = "null"

(***************************************************************************)
(* Tokens of a compiled text.                                              *)
(***************************************************************************)
Lit(s) == [k |-> "lit", s |-> s, n |-> 0]
Ident(s) == [k |-> "id", s |-> s, n |-> 0]
Number(n) == [k |-> "num", s |-> "", n |-> n]
Positional == [k |-> "ph", s |-> "?", n |-> 0]
Numbered(n) == [k |-> "ph", s |-> "$", n |-> n]

\* Array.prototype.join: the parts in order, sep between two neighbours.
RECURSIVE Join(_, _)
Join(parts, sep) ==
  IF parts = <<>> THEN <<>>
  ELSE IF Len(parts) = 1 THEN parts[1]
  ELSE parts[1] \o sep \o Join(Tail(parts), sep)

Comma == <<Lit(",")>>
Blank == <<>>

(***************************************************************************)
(* Dialects and errors.                                                    *)
(***************************************************************************)
Supported == {"mysql", "postgres", "sqlite"}
Dialects == Supported \cup {"oracle"}

NoError == ""
\* The message with the operation written into it as a fixed word.
ErrValuesInsert(op) == "Cannot perform insert query without values!"
ErrValues(op) == "Cannot perform " \o op \o " query without values!"
ErrDelete == "Cannot perform delete without any constraints!"
ErrBetween == "BETWEEN must have two values!"
ErrDialect(d) == "Dialect '" \o d \o "' is not supported yet!"

\* The two quote characters.  The lexer admits no grave accent inside a
\* string, so the token of that character is spelled out.
DoubleQuote == Lit("\"")
Backtick == Lit("BACKTICK")

\* quote(data): no default branch, so an unlisted dialect yields undefined,
\* which a template literal prints as the word undefined.
quote(data, dialect) ==
  CASE dialect = "postgres" -> <<DoubleQuote, Ident(data), DoubleQuote>>
    [] dialect \in {"mysql", "sqlite"} -> <<Backtick, Ident(data), Backtick>>
    [] OTHER -> <<Lit("undefined")>>

\* getPlaceholder(): values is this.values at the time of the call.
getPlaceholder(values, dialect) ==
  CASE dialect \in {"mysql", "sqlite"} ->
         [err |-> NoError, text |-> <<Positional>>]
    [] dialect = "postgres" ->
         [err |-> NoError, text |-> <<Numbered(Len(values))>>]
    [] OTHER ->
         [err |-> ErrDialect(dialect), text |-> <<>>]

\* DateUtils.formatDate: the date-time text of a Date.
formatDate(value) == DateText(value.n)

\* The entry pushed when the dialect test of the boolean branch is left out.
pushedCoerced(value, dialect) ==
  IF value.t = "date" THEN formatDate(value)
  ELSE IF value.t = "boolean" THEN Num(IF value.n = 1 THEN 1 ELSE 0)
  ELSE value

\* The entry toDatabaseValue pushes for a value that is neither an array
\* nor null/undefined.
pushed(value, dialect) ==
  IF value.t = "date" THEN formatDate(value)
  ELSE IF value.t = "boolean" /\ (dialect = "mysql" \/ dialect = "sqlite")
       THEN Num(IF value.n = 1 THEN 1 ELSE 0)
  ELSE value

\* The one element of a singleton.  A result that is used more than once
\* is bound as  Only({ ... r ... : r \in {call} }),  which evaluates the
\* call once however often r occurs.
Only(S) == CHOOSE x \in S : TRUE

RECURSIVE toDatabaseValue(_, _, _)
RECURSIVE mapItems(_, _, _, _)

\* The callback of value.map in toDatabaseValue, run over items from left
\* to right; acc holds the placeholders returned so far.
mapItems(items, acc, values, dialect) ==
  IF items = <<>> THEN [err |-> NoError, parts |-> acc, values |-> values]
  ELSE Only({
    IF inner.err # NoError
    THEN [err |-> inner.err, parts |-> acc, values |-> inner.values]
    ELSE Only({
      IF ph.err # NoError
      THEN [err |-> ph.err, parts |-> acc, values |-> inner.values]
      ELSE mapItems(Tail(items), Append(acc, ph.text), inner.values, dialect)
      : ph \in {getPlaceholder(inner.values, dialect)} })
    : inner \in {toDatabaseValue(Head(items), values, dialect)} })

toDatabaseValue(value, values, dialect) ==
  IF IsArray(value) THEN
    Only({
      IF m.err # NoError
      THEN [err |-> m.err, text |-> <<>>, values |-> m.values]
      ELSE [err |-> NoError,
            text |-> <<Lit("(")>> \o Join(m.parts, Comma) \o <<Lit(")")>>,
            values |-> m.values]
      : m \in {mapItems(value.items, <<>>, values, dialect)} })
  ELSE IF IsNullish(value) THEN
    [err |-> NoError, text |-> <<Lit("NULL")>>, values |-> values]
  ELSE
    Only({
      Only({ [err |-> ph.err, text |-> ph.text, values |-> after]
             : ph \in {getPlaceholder(after, dialect)} })
      : after \in {Append(values, pushed(value, dialect))} })

(***************************************************************************)
(* Constraints.                                                            *)
(***************************************************************************)
\* An optional number that is not there (limit, offset).
Absent == 0 - 1

\* The test with < in the place of !==: three values pass it.
fewerThanTwoValues(value) == ~IsArray(value) \/ Len(value.items) < 2

\* value is not an array of two elements (the test before the throw).
notTwoValues(value) == ~IsArray(value) \/ Len(value.items) # 2

\* The expression of one where clause (the body of the loop before the
\* prefix is chosen).
expression(where, values, dialect) ==
  IF where.operator = "between" THEN
    IF notTwoValues(where.value)
    THEN [err |-> ErrBetween, text |-> <<>>, values |-> values]
    ELSE Only({
      IF low.err # NoError
      THEN [err |-> low.err, text |-> <<>>, values |-> low.values]
      ELSE Only({
        [err |-> high.err,
         text |-> quote(where.column, dialect) \o <<Lit(where.operator)>>
                    \o low.text \o <<Lit("and")>> \o high.text,
         values |-> high.values]
        : high \in {toDatabaseValue(where.value.items[2], low.values, dialect)} })
      : low \in {toDatabaseValue(where.value.items[1], values, dialect)} })
  ELSE Only({
    [err |-> v.err,
     text |-> quote(where.column, dialect) \o <<Lit(where.operator)>> \o v.text,
     values |-> v.values]
    : v \in {toDatabaseValue(where.value, values, dialect)} })

\* The keywords chosen as if no clause were the first one.
prefixOfLater(index, type) ==
  CASE type = "Not" -> <<Lit("AND"), Lit("NOT")>>
    [] type = "Or" -> <<Lit("OR")>>
    [] OTHER -> <<Lit("AND")>>

\* The keywords put before the expression of the clause at index (0-based).
prefix(index, type) ==
  IF index = 0
  THEN IF type = "Not" THEN <<Lit("WHERE"), Lit("NOT")>> ELSE <<Lit("WHERE")>>
  ELSE CASE type = "Not" -> <<Lit("AND"), Lit("NOT")>>
         [] type = "Or" -> <<Lit("OR")>>
         [] OTHER -> <<Lit("AND")>>

\* The loop over description.wheres, from index on; query holds the
\* fragments pushed so far.
RECURSIVE whereLoop(_, _, _, _, _)
whereLoop(wheres, index, query, values, dialect) ==
  IF ~(index < Len(wheres))
  THEN [err |-> NoError, query |-> query, values |-> values]
  ELSE Only({
    IF e.err # NoError
    THEN [err |-> e.err, query |-> query, values |-> e.values]
    ELSE whereLoop(wheres, index + 1,
                   Append(query, prefix(index, wheres[index + 1].type) \o e.text),
                   e.values, dialect)
    : e \in {expression(wheres[index + 1], values, dialect)} })

orderText(order) == <<Ident(order.column), Lit(order.order)>>

\* The fragments pushed when limit and offset are only tested for being
\* there: a limit or offset of 0 is written out.
orderLimitOffsetPresent(d) ==
  (IF Len(d.orders) > 0
   THEN <<<<Lit("ORDER BY")>>,
          Join([i \in 1..Len(d.orders) |-> orderText(d.orders[i])], Comma)>>
   ELSE <<>>)
  \o (IF d.limit # Absent
      THEN <<<<Lit("LIMIT"), Number(d.limit)>>>>
      ELSE <<>>)
  \o (IF d.offset # Absent
      THEN <<<<Lit("OFFSET"), Number(d.offset)>>>>
      ELSE <<>>)

\* The fragments pushed after the where clauses.
orderLimitOffset(d) ==
  (IF Len(d.orders) > 0
   THEN <<<<Lit("ORDER BY")>>,
          Join([i \in 1..Len(d.orders) |-> orderText(d.orders[i])], Comma)>>
   ELSE <<>>)
  \o (IF d.limit # Absent /\ d.limit # 0 /\ d.limit > 0
      THEN <<<<Lit("LIMIT"), Number(d.limit)>>>>
      ELSE <<>>)
  \o (IF d.offset # Absent /\ d.offset # 0 /\ d.offset > 0
      THEN <<<<Lit("OFFSET"), Number(d.offset)>>>>
      ELSE <<>>)

collectConstraints(d, values, dialect) ==
  Only({
    IF w.err # NoError
    THEN [err |-> w.err, query |-> <<>>, values |-> w.values]
    ELSE [err |-> NoError, query |-> w.query \o orderLimitOffset(d),
          values |-> w.values]
    : w \in {whereLoop(d.wheres, 0, <<>>, values, dialect)} })

\* query.join(" ") + ";"
statement(query) == Join(query, Blank) \o <<Lit(";")>>

identList(names) == Join([i \in 1..Len(names) |-> <<Ident(names[i])>>], Comma)

returningClause(d) ==
  IF Len(d.returning) > 0
  THEN <<<<Lit("RETURNING")>>, identList(d.returning)>>
  ELSE <<>>

\* The head of a Select with the column list left without parentheses.
selectHeadBare(d, dialect) ==
  <<<<Lit("SELECT")>>,
    IF Len(d.columns) > 0 THEN identList(d.columns) ELSE <<Lit("*")>>,
    <<Lit("FROM")>> \o quote(d.tableName, dialect)>>

selectHead(d, dialect) ==
  <<<<Lit("SELECT")>>,
    IF Len(d.columns) > 0
    THEN <<Lit("(")>> \o identList(d.columns) \o <<Lit(")")>>
    ELSE <<Lit("*")>>,
    <<Lit("FROM")>> \o quote(d.tableName, dialect)>>

toSelectSQL(d, values, dialect) ==
  Only({
    IF c.err # NoError
    THEN [err |-> c.err, text |-> <<>>, values |-> c.values]
    ELSE [err |-> NoError, text |-> statement(selectHead(d, dialect) \o c.query),
          values |-> c.values]
    : c \in {collectConstraints(d, values, dialect)} })

deleteHead(d, dialect) ==
  <<<<Lit("DELETE"), Lit("FROM")>> \o quote(d.tableName, dialect)>>

toDeleteSQL(d, values, dialect) ==
  Only({
    IF c.err # NoError
    THEN [err |-> c.err, text |-> <<>>, values |-> c.values]
    ELSE IF ~(Len(c.query) >= 1)
    THEN [err |-> ErrDelete, text |-> <<>>, values |-> c.values]
    ELSE [err |-> NoError, text |-> statement(deleteHead(d, dialect) \o c.query),
          values |-> c.values]
    : c \in {collectConstraints(d, values, dialect)} })

(***************************************************************************)
(* Update, Insert and Replace.  description.values is [shape, records]:    *)
(* shape "absent" (undefined), "single" (one mapping, records[1]) or       *)
(* "bulk" (an array of mappings).  A mapping is the sequence of its        *)
(* [key, value] entries in iteration order.                                *)
(***************************************************************************)
keys(mapping) == [i \in 1..Len(mapping) |-> mapping[i].key]

entryValues(mapping) == [i \in 1..Len(mapping) |-> mapping[i].value]

includes(seq, x) == \E i \in 1..Len(seq) : seq[i] = x

\* item[field]: undefined when the mapping has no such key.
get(mapping, field) ==
  IF \E i \in 1..Len(mapping) : mapping[i].key = field
  THEN mapping[CHOOSE i \in 1..Len(mapping) : mapping[i].key = field].value
  ELSE Undefined

\* toDatabaseValue mapped over vals from left to right; acc holds the
\* texts returned so far.
RECURSIVE serializeAll(_, _, _, _)
serializeAll(vals, acc, values, dialect) ==
  IF vals = <<>> THEN [err |-> NoError, parts |-> acc, values |-> values]
  ELSE Only({
    IF v.err # NoError
    THEN [err |-> v.err, parts |-> acc, values |-> v.values]
    ELSE serializeAll(Tail(vals), Append(acc, v.text), v.values, dialect)
    : v \in {toDatabaseValue(Head(vals), values, dialect)} })

updateHead(d, dialect) ==
  <<<<Lit("UPDATE")>> \o quote(d.tableName, dialect) \o <<Lit("SET")>>>>

\* The SET list written from the last entry to the first.
assignmentsReversed(mapping, parts, dialect) ==
  Join([i \in 1..Len(parts) |->
          quote(mapping[Len(parts) + 1 - i].key, dialect) \o <<Lit("=")>>
            \o parts[Len(parts) + 1 - i]],
       Comma)

\* The SET list: key = value for each entry, joined with commas.
assignments(mapping, parts, dialect) ==
  Join([i \in 1..Len(parts) |->
          quote(mapping[i].key, dialect) \o <<Lit("=")>> \o parts[i]],
       Comma)

toUpdateSQL(d, values, dialect) ==
  IF d.values.shape = "absent"
  THEN [err |-> ErrValues("update"), text |-> <<>>, values |-> values]
  ELSE Only({
    IF m.err # NoError
    THEN [err |-> m.err, text |-> <<>>, values |-> m.values]
    ELSE IF ~(Len(m.parts) >= 1)
    THEN [err |-> ErrValues("update"), text |-> <<>>, values |-> m.values]
    ELSE Only({
      IF c.err # NoError
      THEN [err |-> c.err, text |-> <<>>, values |-> c.values]
      ELSE [err |-> NoError,
            text |-> statement(
              updateHead(d, dialect)
                \o <<assignments(d.values.records[1], m.parts, dialect)>>
                \o returningClause(d) \o c.query),
            values |-> c.values]
      : c \in {collectConstraints(d, m.values, dialect)} })
    : m \in {serializeAll(entryValues(d.values.records[1]), <<>>, values,
                          dialect)} })

\* The reduce callback without its includes test: every field is pushed.
pushAll(accumulator, currentValue) == accumulator \o currentValue

\* The reduce callback: the fields of currentValue not yet in accumulator
\* are pushed onto it.
RECURSIVE pushNew(_, _)
pushNew(accumulator, currentValue) ==
  IF currentValue = <<>> THEN accumulator
  ELSE pushNew(IF ~includes(accumulator, Head(currentValue))
               THEN Append(accumulator, Head(currentValue))
               ELSE accumulator,
               Tail(currentValue))

\* reduce without an initial value: the first element is the accumulator.
RECURSIVE reduceFields(_, _)
reduceFields(accumulator, rest) ==
  IF rest = <<>> THEN accumulator
  ELSE reduceFields(pushNew(accumulator, Head(rest)), Tail(rest))

unifiedFields(records) ==
  reduceFields(keys(Head(records)),
               [i \in 1..(Len(records) - 1) |-> keys(records[i + 1])])

\* description.values.map((item) => ...) of the bulk branch.
RECURSIVE tuples(_, _, _, _, _)
tuples(records, fields, acc, values, dialect) ==
  IF records = <<>> THEN [err |-> NoError, parts |-> acc, values |-> values]
  ELSE Only({
    IF itemValues.err # NoError
    THEN [err |-> itemValues.err, parts |-> acc, values |-> itemValues.values]
    ELSE tuples(Tail(records), fields,
                Append(acc, <<Lit("(")>> \o Join(itemValues.parts, Comma)
                              \o <<Lit(")")>>),
                itemValues.values, dialect)
    : itemValues \in
        {serializeAll([i \in 1..Len(fields) |-> get(Head(records), fields[i])],
                      <<>>, values, dialect)} })

\* The column list with the names left as they are.
plainList(fields, dialect) ==
  Join([i \in 1..Len(fields) |-> <<Ident(fields[i])>>], Comma)

quotedList(fields, dialect) ==
  Join([i \in 1..Len(fields) |-> quote(fields[i], dialect)], Comma)

insertHead(d, replace, dialect) ==
  <<<<Lit(IF replace THEN "REPLACE" ELSE "INSERT"), Lit("INTO")>>
      \o quote(d.tableName, dialect)>>

\* The throw of toInsertSQL.
withoutValues(replace, values) ==
  [err |-> ErrValues(IF replace THEN "replace" ELSE "insert"),
   text |-> <<>>, values |-> values]

bulkInsert(d, replace, values, dialect) ==
  IF ~(Len(d.values.records) >= 1) THEN withoutValues(replace, values)
  ELSE Only({
    IF ~(Len(fields) >= 1) THEN withoutValues(replace, values)
    ELSE Only({
      IF t.err # NoError
      THEN [err |-> t.err, text |-> <<>>, values |-> t.values]
      ELSE [err |-> NoError,
            text |-> statement(
              insertHead(d, replace, dialect)
                \o <<<<Lit("(")>> \o quotedList(fields, dialect) \o <<Lit(")")>>,
                     <<Lit("VALUES")>>,
                     Join(t.parts, Comma)>>
                \o returningClause(d)),
            values |-> t.values]
      : t \in {tuples(d.values.records, fields, <<>>, values, dialect)} })
    : fields \in {unifiedFields(d.values.records)} })

singleInsert(d, replace, values, dialect) ==
  IF ~(Len(keys(d.values.records[1])) >= 1) THEN withoutValues(replace, values)
  ELSE Only({
    IF m.err # NoError
    THEN [err |-> m.err, text |-> <<>>, values |-> m.values]
    ELSE [err |-> NoError,
          text |-> statement(
            insertHead(d, replace, dialect)
              \o <<<<Lit("(")>> \o quotedList(keys(d.values.records[1]), dialect)
                     \o <<Lit(")"), Lit("VALUES"), Lit("(")>>
                     \o Join(m.parts, Comma) \o <<Lit(")")>>>>
              \o returningClause(d)),
          values |-> m.values]
    : m \in {serializeAll(entryValues(d.values.records[1]), <<>>, values,
                          dialect)} })

toInsertSQL(d, replace, values, dialect) ==
  IF d.values.shape = "absent" THEN withoutValues(replace, values)
  ELSE IF d.values.shape = "bulk" THEN bulkInsert(d, replace, values, dialect)
  ELSE singleInsert(d, replace, values, dialect)

\* compile(): the dispatch on description.type; values is this.values.
compile(d, values, dialect) ==
  CASE d.type = "Insert" -> toInsertSQL(d, FALSE, values, dialect)
    [] d.type = "Replace" -> toInsertSQL(d, TRUE, values, dialect)
    [] d.type = "Update" -> toUpdateSQL(d, values, dialect)
    [] d.type = "Delete" -> toDeleteSQL(d, values, dialect)
    [] OTHER -> toSelectSQL(d, values, dialect)

(***************************************************************************)
(* The query descriptions the compiler is run on.                          *)
(***************************************************************************)
MaxWheres == 2

Entry(k, v) == [key |-> k, value |-> v]
Where(c, op, v, ty) == [column |-> c, operator |-> op, value |-> v, type |-> ty]
Order(c, o) == [column |-> c, order |-> o]

NoValues == [shape |-> "absent", records |-> <<>>]
Single(mapping) == [shape |-> "single", records |-> <<mapping>>]
Bulk(records) == [shape |-> "bulk", records |-> records]

Clauses ==
  { Where("a", "=", Num(1), "Default"),
    Where("a", "<", Num(2), "undefined"),
    Where("a", "=", Null, "Default"),
    Where("a", "=", Bool(TRUE), "Not"),
    Where("a", ">", Date(7), "Or"),
    Where("b", "in", Arr(<<Num(1), Num(2)>>), "Or"),
    Where("b", "in", Arr(<<Undefined, Num(1)>>), "Default"),
    Where("b", "in", Arr(<<Arr(<<Num(1), Num(2)>>), Num(3)>>), "Default"),
    Where("c", "between", Arr(<<Num(1), Num(2)>>), "Default"),
    Where("c", "between", Arr(<<Null, Bool(FALSE)>>), "Not"),
    Where("c", "between", Arr(<<>>), "Default"),
    Where("c", "between", Arr(<<Num(1)>>), "Default"),
    Where("c", "between", Arr(<<Num(1), Num(2), Num(3)>>), "Or"),
    Where("c", "between", Num(5), "Default") }

LeadingClauses ==
  { Where("a", "=", Num(1), "Or"),
    Where("a", "=", Null, "Not"),
    Where("b", "in", Arr(<<Num(1), Num(2)>>), "Default") }

\* The where sequences of length n: the last clause is any of Clauses, the
\* ones before it are LeadingClauses.
RECURSIVE WheresOfLen(_)
WheresOfLen(n) ==
  IF n = 0 THEN {<<>>}
  ELSE IF n = 1 THEN {<<w>> : w \in Clauses}
  ELSE {<<l>> \o ws : l \in LeadingClauses, ws \in WheresOfLen(n - 1)}

Wheres == UNION {WheresOfLen(n) : n \in 0..MaxWheres}

Pages ==
  { [orders |-> <<>>, limit |-> Absent, offset |-> Absent],
    [orders |-> <<>>, limit |-> 0, offset |-> 0],
    [orders |-> <<>>, limit |-> 5, offset |-> Absent],
    [orders |-> <<>>, limit |-> Absent, offset |-> 3],
    [orders |-> <<Order("a", "ASC")>>, limit |-> Absent, offset |-> Absent],
    [orders |-> <<Order("a", "ASC"), Order("b", "DESC")>>, limit |-> 5,
     offset |-> 3] }

UpdateValues ==
  { NoValues,
    Single(<<>>),
    Single(<<Entry("a", Num(1))>>),
    Single(<<Entry("a", Null), Entry("b", Bool(TRUE))>>),
    Single(<<Entry("a", Arr(<<Null, Num(1)>>)), Entry("b", Date(7))>>) }

InsertValues ==
  { NoValues,
    Single(<<>>),
    Single(<<Entry("a", Num(1)), Entry("b", Num(2))>>),
    Single(<<Entry("a", Null), Entry("b", Bool(TRUE))>>),
    Single(<<Entry("a", Arr(<<Num(1), Num(2)>>)), Entry("b", Date(7))>>),
    Single(<<Entry("a", Arr(<<Arr(<<Num(1), Num(2)>>), Num(3)>>))>>),
    Bulk(<<>>),
    Bulk(<<<<>>>>),
    Bulk(<<<<>>, <<>>>>),
    Bulk(<<<<>>, <<Entry("a", Num(1))>>>>),
    Bulk(<<<<Entry("a", Num(1)), Entry("b", Num(2))>>,
           <<Entry("b", Num(3))>>>>),
    Bulk(<<<<Entry("b", Num(1)), Entry("a", Num(2))>>,
           <<Entry("a", Num(3)), Entry("b", Num(4))>>>>),
    Bulk(<<<<Entry("a", Num(1))>>,
           <<Entry("b", Null), Entry("c", Num(2))>>,
           <<Entry("c", Bool(TRUE)), Entry("a", Date(7))>>>>),
    Bulk(<<<<Entry("a", Undefined)>>, <<Entry("a", Num(1))>>>>),
    Bulk(<<<<Entry("a", Arr(<<Null, Num(1)>>))>>,
           <<Entry("b", Arr(<<Num(1), Num(2)>>))>>>>) }

Describe(ty, cols, vals, ws, page, ret) ==
  [type |-> ty, tableName |-> "users", columns |-> cols, values |-> vals,
   wheres |-> ws, orders |-> page.orders, limit |-> page.limit,
   offset |-> page.offset, returning |-> ret]

NoPage == [orders |-> <<>>, limit |-> Absent, offset |-> Absent]

Selects ==
  { Describe("Select", cols, NoValues, ws, page, <<>>) :
      cols \in {<<>>, <<"a", "b">>}, ws \in Wheres, page \in Pages }

Deletes ==
  { Describe("Delete", <<>>, NoValues, ws, page, <<>>) :
      ws \in Wheres, page \in Pages }

Updates ==
  { Describe("Update", <<>>, vals, ws, page, ret) :
      vals \in UpdateValues, ws \in Wheres,
      page \in {p \in Pages : p.limit # 0 /\ p.offset # 3},
      ret \in {<<>>, <<"a", "b">>} }

Inserts ==
  { Describe(ty, <<>>, vals, <<>>, NoPage, ret) :
      ty \in {"Insert", "Replace"}, vals \in InsertValues,
      ret \in {<<>>, <<"a", "b">>} }

Descriptions == Selects \cup Deletes \cup Updates \cup Inserts

(***************************************************************************)
(* The program: a caller holds one description and the dialect of its      *)
(* connection, constructs compilers for them and calls compile().          *)
(* A result records the call: the compiler, this.values on entry, and the  *)
(* outcome.  The values a successful call returns is the array this.values *)
(* itself, so what the caller sees later is compilers[r.compiler].values.  *)
(***************************************************************************)
Init ==
  /\ description \in Descriptions
  /\ connection \in Dialects
  /\ compilers = <<>>
  /\ results = <<>>

\* new QueryCompiler(description, dialect)
Construct ==
  /\ Len(compilers) < MaxCompilers
  /\ compilers' = Append(compilers, [dialect |-> connection, values |-> <<>>])
  /\ UNCHANGED <<description, connection, results>>

\* The records as the reduce would leave them were its accumulator the key
\* list of the first record itself: each field pushed is a new key of it.
recordsAliased(records) ==
  [records EXCEPT ![1] =
     [i \in 1..Len(unifiedFields(records)) |->
        IF i <= Len(records[1]) THEN records[1][i]
        ELSE [key |-> unifiedFields(records)[i], value |-> Undefined]]]

\* description.values after the reduce of the bulk branch.  The accumulator
\* is the array Object.keys() made for the first record, so the fields the
\* callback pushes reach no record.
recordsAfterUnify(records) == records

\* this.description after compile(): the bulk branch of toInsertSQL holds
\* the only push onto an array made from the description.
descriptionAfter(d) ==
  IF /\ d.type \in {"Insert", "Replace"}
     /\ d.values.shape = "bulk"
     /\ Len(d.values.records) >= 1
  THEN [d EXCEPT !.values.records = recordsAfterUnify(d.values.records)]
  ELSE d

\* compile() as it would be were values a static field of the class: every
\* compiler pushes onto the one array, which starts as the last call left it.
CompileStatic(i) ==
  /\ Len(results) < MaxCalls
  /\ \E shared \in {IF results = <<>> THEN <<>>
                     ELSE compilers[results[Len(results)].compiler].values} :
       \E r \in {compile(description, shared, compilers[i].dialect)} :
         /\ compilers' = [k \in 1..Len(compilers) |->
                            [compilers[k] EXCEPT !.values = r.values]]
         /\ results' = Append(results,
                              [compiler |-> i, entry |-> shared,
                               err |-> r.err, text |-> r.text,
                               values |-> r.values])
  /\ description' = descriptionAfter(description)
  /\ UNCHANGED connection

\* compilers[i].compile()
Compile(i) ==
  /\ Len(results) < MaxCalls
  /\ \E r \in {compile(description, compilers[i].values,
                         compilers[i].dialect)} :
       /\ compilers' = [compilers EXCEPT ![i].values = r.values]
       /\ results' = Append(results,
                            [compiler |-> i, entry |-> compilers[i].values,
                             err |-> r.err, text |-> r.text,
                             values |-> r.values])
  /\ description' = descriptionAfter(description)
  /\ UNCHANGED connection

Next == Construct \/ \E i \in 1..Len(compilers) : Compile(i)

Spec == Init /\ [][Next]_vars

(***************************************************************************)
(* Notions the properties are stated with.                                 *)
(***************************************************************************)
Calls == 1..Len(results)
Succeeded(j) == results[j].err = NoError
DialectOf(j) == compilers[results[j].compiler].dialect

\* The call is the first compile() of its compiler: the compiler is fresh.
FirstCall(j) == \A k \in 1..(j - 1) : results[k].compiler # results[j].compiler

\* The values array the caller of call j holds now.
Returned(j) == compilers[results[j].compiler].values

IsPlaceholder(tok) == tok.k = "ph"
Placeholders(text) == SelectSeq(text, IsPlaceholder)

RECURSIVE Count(_, _)
Count(text, tok) ==
  IF text = <<>> THEN 0
  ELSE (IF Head(text) = tok THEN 1 ELSE 0) + Count(Tail(text), tok)

RECURSIVE Sum(_)
Sum(ns) == IF ns = <<>> THEN 0 ELSE Head(ns) + Sum(Tail(ns))

\* The number of null/undefined a value holds, at any depth.
RECURSIVE Nulls(_)
Nulls(value) ==
  IF IsNullish(value) THEN 1
  ELSE IF IsArray(value)
  THEN Sum([i \in 1..Len(value.items) |-> Nulls(value.items[i])])
  ELSE 0

\* The scalars a value holds that are not null/undefined, left to right.
RECURSIVE Leaves(_)
RECURSIVE LeavesOfAll(_)
Leaves(value) ==
  IF IsNullish(value) THEN <<>>
  ELSE IF IsArray(value) THEN LeavesOfAll(value.items)
  ELSE <<value>>
LeavesOfAll(vals) ==
  IF vals = <<>> THEN <<>> ELSE Leaves(Head(vals)) \o LeavesOfAll(Tail(vals))

\* The values a description hands to the serializer, in the order of the
\* statement: SET or VALUES positions first, where values after them.
AllKeys(records) == UNION {{records[i][j].key : j \in 1..Len(records[i])} :
                             i \in 1..Len(records)}
HasKey(mapping, k) == \E j \in 1..Len(mapping) : mapping[j].key = k
ValueAt(mapping, k) ==
  IF HasKey(mapping, k)
  THEN mapping[CHOOSE j \in 1..Len(mapping) : mapping[j].key = k].value
  ELSE Undefined

\* Position of key k in the union of the keys: first record that has it,
\* then its place in that record.
FirstRecord(records, k) ==
  CHOOSE i \in 1..Len(records) :
    /\ HasKey(records[i], k)
    /\ \A h \in 1..(i - 1) : ~HasKey(records[h], k)
PlaceIn(mapping, k) == CHOOSE j \in 1..Len(mapping) : mapping[j].key = k
Before(records, k1, k2) ==
  LET r1 == FirstRecord(records, k1)
      r2 == FirstRecord(records, k2)
  IN r1 < r2 \/ (r1 = r2 /\ PlaceIn(records[r1], k1) < PlaceIn(records[r2], k2))
\* The union of the keys in first-seen order.
FirstSeen(records) ==
  LET ks == AllKeys(records) IN
  CHOOSE f \in [1..Cardinality(ks) -> ks] :
    /\ \A p, q \in 1..Cardinality(ks) : p < q => Before(records, f[p], f[q])

RECURSIVE Flatten(_)
Flatten(seqs) == IF seqs = <<>> THEN <<>> ELSE Head(seqs) \o Flatten(Tail(seqs))

RowMajor(records) ==
  LET f == FirstSeen(records) IN
  Flatten([i \in 1..Len(records) |->
             [j \in 1..Len(f) |-> ValueAt(records[i], f[j])]])

WhereArgs(where) ==
  IF where.operator = "between" /\ IsArray(where.value)
  THEN where.value.items
  ELSE <<where.value>>

ValueArgs(d) ==
  IF d.type \in {"Insert", "Replace"}
  THEN IF d.values.shape = "bulk" /\ d.values.records # <<>>
       THEN RowMajor(d.values.records)
       ELSE IF d.values.shape = "single"
       THEN [i \in 1..Len(d.values.records[1]) |-> d.values.records[1][i].value]
       ELSE <<>>
  ELSE IF d.type = "Update" /\ d.values.shape = "single"
  THEN [i \in 1..Len(d.values.records[1]) |-> d.values.records[1][i].value]
  ELSE <<>>

Serialized(d) ==
  ValueArgs(d)
    \o (IF d.type \in {"Select", "Update", "Delete"}
        THEN Flatten([i \in 1..Len(d.wheres) |-> WhereArgs(d.wheres[i])])
        ELSE <<>>)

(***************************************************************************)
(* C1.  Every successful compile of a fresh compiler under mysql, postgres *)
(* or sqlite returns a text with as many placeholders as values has        *)
(* entries, the i-th placeholder standing for the i-th entry (under        *)
(* postgres it is numbered i).                                             *)
(***************************************************************************)
C1_PlaceholdersMatchValues ==
  \A j \in Calls :
    (Succeeded(j) /\ FirstCall(j) /\ DialectOf(j) \in Supported) =>
      LET ph == Placeholders(results[j].text) IN
      /\ Len(ph) = Len(results[j].values)
      /\ DialectOf(j) = "postgres" => \A i \in 1..Len(ph) : ph[i].n = i

(***************************************************************************)
(* C2.  Under postgres, a fresh compiler numbers the placeholders of its   *)
(* text, read from left to right, 1, 2, ..., k, where k is the length of   *)
(* the returned values.                                                    *)
(***************************************************************************)
C2_PostgresNumbering ==
  \A j \in Calls :
    (Succeeded(j) /\ FirstCall(j) /\ DialectOf(j) = "postgres") =>
      LET ph == Placeholders(results[j].text) IN
      [i \in 1..Len(ph) |-> ph[i].n] = [i \in 1..Len(results[j].values) |-> i]

(***************************************************************************)
(* C3.  Compiling a Delete whose wheres is empty fails with the delete     *)
(* error whatever orders, limit and offset are, and no DELETE statement    *)
(* without a WHERE is ever returned.                                       *)
(***************************************************************************)
C3_DeleteNeedsWhere ==
  \A j \in Calls :
    description.type = "Delete" =>
      /\ description.wheres = <<>> =>
           results[j].err = "Cannot perform delete without any constraints!"
      /\ Succeeded(j) => Count(results[j].text, Lit("WHERE")) >= 1

(***************************************************************************)
(* C4.  Under a dialect other than mysql, postgres and sqlite compile      *)
(* never returns a statement, whatever the description is.                 *)
(***************************************************************************)
C4_UnsupportedDialectFails ==
  \A j \in Calls :
    DialectOf(j) \notin {"mysql", "postgres", "sqlite"} => ~Succeeded(j)

(***************************************************************************)
(* C5.  The values a compile call returned hold exactly the entries bound  *)
(* during that call: none is left over from an earlier call, and no later  *)
(* call changes them.                                                      *)
(***************************************************************************)
BoundDuring(j) ==
  SubSeq(results[j].values, Len(results[j].entry) + 1, Len(results[j].values))

C5_ValuesScopedToCall ==
  \A j \in Calls : Succeeded(j) => Returned(j) = BoundDuring(j)

(***************************************************************************)
(* C6.  Each null or undefined handed to the serializer, also as an        *)
(* element of a sequence, is the literal NULL in the text; it appends no   *)
(* entry to values and gets no placeholder: the text has one NULL per      *)
(* null/undefined and one placeholder per other scalar.                    *)
(***************************************************************************)
C6_NullIsLiteral ==
  \A j \in Calls :
    Succeeded(j) =>
      LET args == Serialized(description) IN
      /\ Count(results[j].text, Lit("NULL"))
           = Sum([i \in 1..Len(args) |-> Nulls(args[i])])
      /\ Len(BoundDuring(j)) = Len(LeavesOfAll(args))
      /\ Len(Placeholders(results[j].text)) = Len(LeavesOfAll(args))

First(text, tok) ==
  IF \E i \in 1..Len(text) : text[i] = tok
  THEN CHOOSE i \in 1..Len(text) :
         text[i] = tok /\ \A h \in 1..(i - 1) : text[h] # tok
  ELSE 0

\* The parts of text between the commas that are inside no parentheses.
RECURSIVE SplitScan(_, _, _, _)
SplitScan(text, depth, cur, acc) ==
  IF text = <<>> THEN (IF cur = <<>> /\ acc = <<>> THEN <<>> ELSE Append(acc, cur))
  ELSE IF Head(text) = Lit(",") /\ depth = 0
  THEN SplitScan(Tail(text), 0, <<>>, Append(acc, cur))
  ELSE SplitScan(Tail(text),
                 IF Head(text) = Lit("(") THEN depth + 1
                 ELSE IF Head(text) = Lit(")") THEN depth - 1 ELSE depth,
                 Append(cur, Head(text)), acc)
SplitTop(text) == SplitScan(text, 0, <<>>, <<>>)

\* text without its first and last token.
Inside(text) == SubSeq(text, 2, Len(text) - 1)
Parenthesized(text) ==
  Len(text) >= 2 /\ text[1] = Lit("(") /\ text[Len(text)] = Lit(")")

QuoteOf(d) == IF d = "postgres" THEN Lit("\"") ELSE Lit("BACKTICK")
Quoted(name, d) == <<QuoteOf(d), Ident(name), QuoteOf(d)>>

\* What is bound for a scalar that is not null/undefined.
BoundForm(value, d) ==
  IF value.t = "date" THEN [t |-> "string", n |-> value.n, items |-> <<>>]
  ELSE IF value.t = "boolean" /\ d \in {"mysql", "sqlite"}
  THEN [t |-> "number", n |-> value.n, items |-> <<>>]
  ELSE value
BoundForms(vals, d) == [i \in 1..Len(vals) |-> BoundForm(vals[i], d)]

IsBulk(d) ==
  d.type \in {"Insert", "Replace"} /\ d.values.shape = "bulk"

(***************************************************************************)
(* C8.  A successful bulk Insert/Replace lists the union of the records'   *)
(* keys, each once, in first-seen order; it has one tuple per record, in   *)
(* record order, with one position per listed column; the position of a    *)
(* key the record lacks is the literal NULL; and the values bound are the  *)
(* non-null values of the records in row-major order (a sequence value     *)
(* binding its scalars).                                                   *)
(***************************************************************************)
C8_BulkInsertShape ==
  \A j \in Calls :
    (Succeeded(j) /\ IsBulk(description)) =>
      LET text == results[j].text
          recs == description.values.records
          f == FirstSeen(recs)
          open == First(text, Lit("("))
          vals == First(text, Lit("VALUES"))
          ret == First(text, Lit("RETURNING"))
          end == IF ret = 0 THEN Len(text) ELSE ret
          cols == SplitTop(SubSeq(text, open + 1, vals - 2))
          tups == SplitTop(SubSeq(text, vals + 1, end - 1))
      IN /\ text[vals - 1] = Lit(")")
         /\ cols = [c \in 1..Len(f) |-> Quoted(f[c], DialectOf(j))]
         /\ Len(tups) = Len(recs)
         /\ \A i \in 1..Len(tups) :
              /\ Parenthesized(tups[i])
              /\ LET pos == SplitTop(Inside(tups[i])) IN
                 /\ Len(pos) = Len(f)
                 /\ \A c \in 1..Len(f) :
                      LET v == ValueAt(recs[i], f[c]) IN
                      /\ ~HasKey(recs[i], f[c]) => pos[c] = <<Lit("NULL")>>
                      /\ (~IsNullish(v) /\ ~IsArray(v)) =>
                           Len(pos[c]) = 1 /\ IsPlaceholder(pos[c][1])
         /\ BoundDuring(j)
              = BoundForms(LeavesOfAll(RowMajor(recs)), DialectOf(j))

C8_BulkWithMissingKeys ==
  \E j \in Calls :
    /\ Succeeded(j) /\ IsBulk(description)
    /\ LET recs == description.values.records IN
       /\ Len(recs) >= 3
       /\ \E i \in 1..Len(recs) : \E k \in AllKeys(recs) : ~HasKey(recs[i], k)
       /\ \E k \in AllKeys(recs) : FirstRecord(recs, k) > 1
       /\ Len(results[j].values) >= 3

(***************************************************************************)
(* C9.  Insert and Replace fail with the without-values error of their     *)
(* operation when values is absent, an empty sequence of records, a        *)
(* mapping with no key, or records with no key at all; Update fails with   *)
(* its own when values is absent or a mapping with no entry.  No statement *)
(* is returned.                                                            *)
(***************************************************************************)
LacksValues(d) ==
  \/ /\ d.type \in {"Insert", "Replace"}
     /\ \/ d.values.shape = "absent"
        \/ d.values.shape = "bulk" /\ d.values.records = <<>>
        \/ d.values.shape = "single" /\ d.values.records[1] = <<>>
        \/ d.values.shape = "bulk" /\ AllKeys(d.values.records) = {}
  \/ /\ d.type = "Update"
     /\ \/ d.values.shape = "absent"
        \/ d.values.shape = "single" /\ d.values.records[1] = <<>>

WithoutValuesMessage(d) ==
  CASE d.type = "Insert" -> "Cannot perform insert query without values!"
    [] d.type = "Replace" -> "Cannot perform replace query without values!"
    [] OTHER -> "Cannot perform update query without values!"

C9_WithoutValuesFails ==
  \A j \in Calls :
    LacksValues(description) =>
      /\ results[j].err = WithoutValuesMessage(description)
      /\ results[j].text = <<>>

C9_ReplaceWithoutColumns ==
  \E j \in Calls :
    /\ description.type = "Replace"
    /\ description.values.shape = "bulk"
    /\ Len(description.values.records) >= 2
    /\ LacksValues(description)
    /\ results[j].err = "Cannot perform replace query without values!"

(***************************************************************************)
(* C10.  Between clauses.                                                  *)
(***************************************************************************)
TakesConstraints(d) == d.type \in {"Select", "Update", "Delete"}

IsBetween(where) == where.operator = "between"
HasTwo(where) == IsArray(where.value) /\ Len(where.value.items) = 2

HasBadBetween(d) ==
  /\ TakesConstraints(d)
  /\ \E i \in 1..Len(d.wheres) : IsBetween(d.wheres[i]) /\ ~HasTwo(d.wheres[i])

\* The places of tok in text, in increasing order.
RECURSIVE PlacesFrom(_, _, _)
PlacesFrom(text, tok, i) ==
  IF i > Len(text) THEN <<>>
  ELSE (IF text[i] = tok THEN <<i>> ELSE <<>>) \o PlacesFrom(text, tok, i + 1)
Places(text, tok) == PlacesFrom(text, tok, 1)

\* The indexes of the between clauses of wheres, in increasing order.
RECURSIVE BetweensFrom(_, _)
BetweensFrom(wheres, i) ==
  IF i > Len(wheres) THEN <<>>
  ELSE (IF IsBetween(wheres[i]) THEN <<i>> ELSE <<>>)
         \o BetweensFrom(wheres, i + 1)

\* The number of entries bound before the where clause at index i.
BoundBefore(d, i) ==
  Len(LeavesOfAll(ValueArgs(d)
                    \o Flatten([h \in 1..(i - 1) |-> WhereArgs(d.wheres[h])])))

\* The text of a scalar at place p: NULL for null/undefined, a placeholder
\* otherwise.
ScalarAt(text, p, value) ==
  IF IsNullish(value) THEN text[p] = Lit("NULL")
  ELSE IsArray(value) \/ IsPlaceholder(text[p])

\* Every between clause of a returned statement reads
\* <quoted column> between <low> and <high>, and what low binds comes in
\* values right before what high binds.
BetweenEmitted(j) ==
  (Succeeded(j) /\ TakesConstraints(description)) =>
    LET text == results[j].text
        ws == description.wheres
        at == Places(text, Lit("between"))
        bs == BetweensFrom(ws, 1)
    IN /\ Len(at) = Len(bs)
       /\ \A n \in 1..Len(bs) :
            LET w == ws[bs[n]]
                p == at[n]
                low == w.value.items[1]
                high == w.value.items[2]
                m == BoundBefore(description, bs[n])
                bound == BoundDuring(j)
            IN /\ HasTwo(w)
               /\ SubSeq(text, p - 3, p - 1) = Quoted(w.column, DialectOf(j))
               /\ (~IsArray(low) /\ ~IsArray(high)) =>
                    /\ ScalarAt(text, p + 1, low)
                    /\ text[p + 2] = Lit("and")
                    /\ ScalarAt(text, p + 3, high)
               /\ SubSeq(bound, m + 1, m + Len(Leaves(low)) + Len(Leaves(high)))
                    = BoundForms(Leaves(low) \o Leaves(high), DialectOf(j))

(***************************************************************************)
(* C10 as the specification states it.  For Select, Update and Delete, a   *)
(* between clause whose value is not a sequence of two elements makes      *)
(* compile fail with the BETWEEN error and return no statement; with two   *)
(* elements the clause is emitted as <quoted col> between <v0> and <v1>,   *)
(* low bound before high.                                                  *)
(***************************************************************************)
C10_BetweenArityAlways ==
  \A j \in Calls :
    /\ HasBadBetween(description) =>
         /\ results[j].err = "BETWEEN must have two values!"
         /\ results[j].text = <<>>
    /\ BetweenEmitted(j)

(***************************************************************************)
(* C10 amended.  For Select, Update and Delete, a between clause whose     *)
(* value is not a sequence of two elements makes compile fail and return   *)
(* no statement; under mysql, postgres and sqlite the error is the BETWEEN *)
(* error, except that an Update whose values are absent or empty fails     *)
(* with the update-without-values error before the clauses are looked at.  *)
(* With two elements the clause is emitted as <quoted col> between <v0>    *)
(* and <v1>, low bound before high.                                        *)
(***************************************************************************)
C10_BetweenArity ==
  \A j \in Calls :
    /\ HasBadBetween(description) =>
         /\ ~Succeeded(j)
         /\ results[j].text = <<>>
         /\ DialectOf(j) \in {"mysql", "postgres", "sqlite"} =>
              results[j].err =
                IF LacksValues(description)
                THEN "Cannot perform update query without values!"
                ELSE "BETWEEN must have two values!"
    /\ BetweenEmitted(j)

C10_UpdateFailsOnBetween ==
  \E j \in Calls :
    /\ description.type = "Update"
    /\ HasBadBetween(description)
    /\ Len(description.wheres) >= 2
    /\ results[j].err = "BETWEEN must have two values!"
    /\ Len(results[j].values) >= 2

(***************************************************************************)
(* C11.  The where clauses of a returned statement come in the order of    *)
(* the description, one fragment each: the first is led by WHERE NOT when  *)
(* its type is Not and by WHERE otherwise (Or included), a later one by    *)
(* AND NOT for Not, OR for Or and AND for any other type.  WHERE occurs    *)
(* once when wheres is not empty and not at all when it is.                *)
(***************************************************************************)
IsClauseKeyword(tok) == tok \in {Lit("WHERE"), Lit("AND"), Lit("OR")}

\* The places of the tokens of text that satisfy Test, in increasing order.
RECURSIVE PlacesWhere(_, _, _)
PlacesWhere(text, Test(_), i) ==
  IF i > Len(text) THEN <<>>
  ELSE (IF Test(text[i]) THEN <<i>> ELSE <<>>) \o PlacesWhere(text, Test, i + 1)

C11_WherePrefixes ==
  \A j \in Calls :
    (Succeeded(j) /\ TakesConstraints(description)) =>
      LET text == results[j].text
          ws == description.wheres
          at == PlacesWhere(text, IsClauseKeyword, 1)
      IN /\ Len(at) = Len(ws)
         /\ Count(text, Lit("WHERE")) = (IF ws = <<>> THEN 0 ELSE 1)
         /\ \A i \in 1..Len(ws) :
              LET p == at[i]
                  negated == ws[i].type = "Not"
                  q == IF negated THEN p + 2 ELSE p + 1
              IN /\ text[p] = (IF i = 1 THEN Lit("WHERE")
                               ELSE IF ws[i].type = "Or" THEN Lit("OR")
                               ELSE Lit("AND"))
                 /\ negated <=> text[p + 1] = Lit("NOT")
                 /\ DialectOf(j) \in {"mysql", "postgres", "sqlite"} =>
                      /\ SubSeq(text, q, q + 2) = Quoted(ws[i].column, DialectOf(j))
                      /\ text[q + 3] = Lit(ws[i].operator)

C11_OrThenNot ==
  \E j \in Calls :
    /\ Succeeded(j) /\ TakesConstraints(description)
    /\ Len(description.wheres) >= 2
    /\ description.wheres[1].type = "Or"
    /\ description.wheres[2].type = "Not"
    /\ Count(results[j].text, Lit("WHERE")) = 1

(***************************************************************************)
(* C12.  A boolean is bound as the number 1 (true) or 0 (false) under      *)
(* mysql and sqlite and as itself under postgres; any other value that is  *)
(* not null, a date or a sequence is appended to values as it is, under    *)
(* every dialect.                                                          *)
(***************************************************************************)
C12_BooleanCoercion ==
  \A j \in Calls :
    Succeeded(j) =>
      LET given == LeavesOfAll(Serialized(description))
          bound == BoundDuring(j)
      IN /\ Len(bound) = Len(given)
         /\ \A i \in 1..Len(given) :
              /\ (given[i].t = "boolean" /\ DialectOf(j) \in {"mysql", "sqlite"}) =>
                   /\ bound[i].t = "number"
                   /\ bound[i].n = (IF given[i] = Bool(TRUE) THEN 1 ELSE 0)
              /\ (given[i].t = "boolean" /\ DialectOf(j) = "postgres") =>
                   bound[i] = given[i]
              /\ given[i].t \notin {"boolean", "date"} => bound[i] = given[i]

C12_BooleanBound ==
  \E j \in Calls :
    /\ Succeeded(j)
    /\ DialectOf(j) = "sqlite"
    /\ LET given == LeavesOfAll(Serialized(description))
           bound == BoundDuring(j)
       IN /\ Len(bound) = Len(given)
          /\ \E i \in 1..Len(given) :
               given[i] = Bool(TRUE) /\ bound[i] = Num(1)
          /\ \E i \in 1..Len(given) :
               given[i].t = "number" /\ bound[i] = given[i]

(***************************************************************************)
(* C13.  A returned Select, Update or Delete ends with its constraints in  *)
(* the order where clauses, ORDER BY, LIMIT, OFFSET.  ORDER BY is there    *)
(* exactly when orders is not empty, LIMIT <n> exactly when limit is       *)
(* present and above zero, OFFSET <n> exactly when offset is; each is      *)
(* there or not whatever the others are, and limit and offset are written  *)
(* as numbers in the text and never appended to values.                    *)
(***************************************************************************)
HasLimit(d) == d.limit # Absent /\ d.limit > 0
HasOffset(d) == d.offset # Absent /\ d.offset > 0

OrderList(orders) ==
  Join([i \in 1..Len(orders) |->
          <<Ident(orders[i].column), Lit(orders[i].order)>>],
       <<Lit(",")>>)

\* What follows the where clauses, up to the end of the statement.
Ending(d) ==
  (IF d.orders # <<>> THEN <<Lit("ORDER BY")>> \o OrderList(d.orders) ELSE <<>>)
    \o (IF HasLimit(d) THEN <<Lit("LIMIT"), Number(d.limit)>> ELSE <<>>)
    \o (IF HasOffset(d) THEN <<Lit("OFFSET"), Number(d.offset)>> ELSE <<>>)
    \o <<Lit(";")>>

C13_ConstraintOrder ==
  \A j \in Calls :
    (Succeeded(j) /\ TakesConstraints(description)) =>
      LET text == results[j].text
          d == description
          tail == Ending(d)
          start == Len(text) - Len(tail) + 1
          clauses == PlacesWhere(text, IsClauseKeyword, 1)
      IN /\ start >= 1
         /\ SubSeq(text, start, Len(text)) = tail
         /\ \A i \in 1..Len(clauses) : clauses[i] < start
         /\ Count(text, Lit("ORDER BY")) = (IF d.orders # <<>> THEN 1 ELSE 0)
         /\ Count(text, Lit("LIMIT")) = (IF HasLimit(d) THEN 1 ELSE 0)
         /\ Count(text, Lit("OFFSET")) = (IF HasOffset(d) THEN 1 ELSE 0)
         /\ \A i \in 1..Len(text) : text[i].k = "num" => i >= start
         /\ Len(BoundDuring(j)) = Len(LeavesOfAll(Serialized(d)))

C13_AllConstraints ==
  \E j \in Calls :
    /\ Succeeded(j) /\ description.type = "Delete"
    /\ Len(description.wheres) >= 2
    /\ Len(description.orders) >= 2
    /\ HasLimit(description) /\ HasOffset(description)
    /\ Len(results[j].values) >= 2

(***************************************************************************)
(* C14.  Identifier quoting.                                               *)
(***************************************************************************)
\* The names of the identifiers of text that stand between two quote
\* characters, and of those that do not, each from left to right.
IsQuotedAt(text, i, d) ==
  /\ text[i].k = "id"
  /\ i > 1 /\ i < Len(text)
  /\ text[i - 1] = QuoteOf(d) /\ text[i + 1] = QuoteOf(d)

RECURSIVE NamesFrom(_, _, _, _)
NamesFrom(text, d, quoted, i) ==
  IF i > Len(text) THEN <<>>
  ELSE (IF text[i].k = "id" /\ (IsQuotedAt(text, i, d) <=> quoted)
        THEN <<text[i].s>> ELSE <<>>)
         \o NamesFrom(text, d, quoted, i + 1)
QuotedNames(text, d) == NamesFrom(text, d, TRUE, 1)
PlainNames(text, d) == NamesFrom(text, d, FALSE, 1)

WhereColumns(d) == [i \in 1..Len(d.wheres) |-> d.wheres[i].column]
OrderColumns(d) == [i \in 1..Len(d.orders) |-> d.orders[i].column]
UpdateColumns(d) ==
  [i \in 1..Len(d.values.records[1]) |-> d.values.records[1][i].key]
InsertColumns(d) ==
  IF d.values.shape = "bulk" THEN FirstSeen(d.values.records)
  ELSE [i \in 1..Len(d.values.records[1]) |-> d.values.records[1][i].key]

\* The identifiers a statement leaves unquoted: the select columns, the
\* returning columns and the order-by columns.
LeftPlain(d) ==
  CASE d.type = "Select" -> d.columns \o OrderColumns(d)
    [] d.type = "Update" -> d.returning \o OrderColumns(d)
    [] d.type = "Delete" -> OrderColumns(d)
    [] OTHER -> d.returning

(***************************************************************************)
(* C14 as the specification states it.  Only table names, where-clause     *)
(* column names and update column names are quoted (double quotes under    *)
(* postgres, backticks under mysql and sqlite); select columns and         *)
(* order-by columns are not, and no other identifier of a statement is.    *)
(***************************************************************************)
C14_QuotedOnlyTableWhereUpdate ==
  \A j \in Calls :
    (Succeeded(j) /\ DialectOf(j) \in {"mysql", "postgres", "sqlite"}) =>
      LET d == description IN
      /\ QuotedNames(results[j].text, DialectOf(j))
           = <<d.tableName>>
               \o (IF d.type = "Update" THEN UpdateColumns(d) ELSE <<>>)
               \o (IF TakesConstraints(d) THEN WhereColumns(d) ELSE <<>>)
      /\ TakesConstraints(d) =>
           PlainNames(results[j].text, DialectOf(j)) = LeftPlain(d)

(***************************************************************************)
(* C14 amended.  Only table names, where-clause column names, update       *)
(* column names and the column list of Insert and Replace are quoted       *)
(* (double quotes under postgres, backticks under mysql and sqlite);       *)
(* select columns, order-by columns and returning columns are not, and no  *)
(* other identifier of a statement is.                                     *)
(***************************************************************************)
C14_QuotedNames ==
  \A j \in Calls :
    (Succeeded(j) /\ DialectOf(j) \in {"mysql", "postgres", "sqlite"}) =>
      LET d == description IN
      /\ QuotedNames(results[j].text, DialectOf(j))
           = <<d.tableName>>
               \o (IF d.type = "Update" THEN UpdateColumns(d) ELSE <<>>)
               \o (IF d.type \in {"Insert", "Replace"} THEN InsertColumns(d)
                   ELSE <<>>)
               \o (IF TakesConstraints(d) THEN WhereColumns(d) ELSE <<>>)
      /\ PlainNames(results[j].text, DialectOf(j)) = LeftPlain(d)

C14_InsertReturning ==
  \E j \in Calls :
    /\ Succeeded(j) /\ DialectOf(j) = "postgres"
    /\ description.type = "Insert"
    /\ description.values.shape = "single"
    /\ description.returning # <<>>
    /\ Len(QuotedNames(results[j].text, "postgres")) >= 3

(***************************************************************************)
(* C15.  The shape of a Select.                                            *)
(***************************************************************************)
Named(names) ==
  Join([i \in 1..Len(names) |-> <<Ident(names[i])>>], <<Lit(",")>>)

SelectColumns(d) ==
  IF d.columns = <<>> THEN <<Lit("*")>>
  ELSE <<Lit("(")>> \o Named(d.columns) \o <<Lit(")")>>

Unconstrained(d) ==
  d.wheres = <<>> /\ d.orders = <<>> /\ ~HasLimit(d) /\ ~HasOffset(d)

\* text begins with head, ends with tail, and the two do not overlap.
Between(text, head, tail) ==
  SubSeq(text, Len(head) + 1, Len(text) - Len(tail))
Frames(text, head, tail) ==
  /\ Len(text) >= Len(head) + Len(tail)
  /\ SubSeq(text, 1, Len(head)) = head
  /\ SubSeq(text, Len(text) - Len(tail) + 1, Len(text)) = tail

(***************************************************************************)
(* C15.  Under mysql, postgres and sqlite a compiled Select is SELECT, the *)
(* columns (an asterisk when columns is empty, else the names in           *)
(* description order, comma-joined, in parentheses), FROM, the quoted      *)
(* table, then the where                                                   *)
(* clauses (none when wheres is empty, else a run that starts with WHERE)  *)
(* and the order, limit and offset parts with the semicolon.  A Select     *)
(* with no columns, where, order, limit or offset is exactly               *)
(* SELECT * FROM <quoted table> ; and binds nothing.  A Select with no     *)
(* where clauses never fails, and a Select that fails under these dialects *)
(* has a between clause without two values.                                *)
(***************************************************************************)
C15_SelectShape ==
  \A j \in Calls :
    description.type = "Select" =>
      LET d == description
          text == results[j].text
          head == <<Lit("SELECT")>> \o SelectColumns(d) \o <<Lit("FROM")>>
                    \o Quoted(d.tableName, DialectOf(j))
          clauses == Between(text, head, Ending(d))
      IN /\ d.wheres = <<>> => Succeeded(j)
         /\ DialectOf(j) \in {"mysql", "postgres", "sqlite"} =>
              /\ ~Succeeded(j) => HasBadBetween(d)
              /\ Succeeded(j) =>
                   /\ Frames(text, head, Ending(d))
                   /\ (d.wheres = <<>>) <=> (clauses = <<>>)
                   /\ d.wheres # <<>> => Head(clauses) = Lit("WHERE")
                   /\ Unconstrained(d) =>
                        /\ text = head \o <<Lit(";")>>
                        /\ d.columns = <<>> =>
                             text = <<Lit("SELECT"), Lit("*"), Lit("FROM")>>
                                      \o Quoted(d.tableName, DialectOf(j))
                                      \o <<Lit(";")>>
                        /\ results[j].values = <<>>
                        /\ Returned(j) = <<>>

C15_ColumnsAndWhere ==
  \E j \in Calls :
    /\ Succeeded(j) /\ DialectOf(j) = "mysql"
    /\ description.type = "Select"
    /\ Len(description.columns) >= 2
    /\ description.wheres # <<>>
    /\ Len(results[j].text) > 10

(***************************************************************************)
(* C16.  The shape of an Update.                                           *)
(***************************************************************************)
\* The first place of text that holds one of toks, Len(text) + 1 if none.
FirstOf(text, toks) ==
  IF \E i \in 1..Len(text) : text[i] \in toks
  THEN CHOOSE i \in 1..Len(text) :
         text[i] \in toks /\ \A h \in 1..(i - 1) : text[h] \notin toks
  ELSE Len(text) + 1

StartsWith(text, head) ==
  Len(text) >= Len(head) /\ SubSeq(text, 1, Len(head)) = head

SetValues(d) ==
  [i \in 1..Len(d.values.records[1]) |-> d.values.records[1][i].value]
WhereValues(d) == Flatten([i \in 1..Len(d.wheres) |-> WhereArgs(d.wheres[i])])

HasAssignments(d) ==
  d.type = "Update" /\ d.values.shape = "single" /\ d.values.records[1] # <<>>

(***************************************************************************)
(* C16.  Under mysql, postgres and sqlite a compiled Update is UPDATE, the *)
(* quoted table, SET, one assignment <quoted key> = <value> per entry of   *)
(* the mapping, in mapping order and comma-joined, then RETURNING and the  *)
(* returning names when returning is non-empty, then the where clauses     *)
(* and the order, limit and offset parts.  The values bound for the SET    *)
(* entries come first in values, in mapping order, and those bound for the *)
(* where clauses follow them in clause order; under postgres the           *)
(* placeholder of an entry with a plain value is numbered with the place   *)
(* of that value in values.  An Update that has assignments and no where   *)
(* clauses succeeds.                                                       *)
(***************************************************************************)
C16_UpdateShape ==
  \A j \in Calls :
    (HasAssignments(description)
       /\ DialectOf(j) \in {"mysql", "postgres", "sqlite"}) =>
      LET d == description
          dialect == DialectOf(j)
          text == results[j].text
          mapping == d.values.records[1]
          head == <<Lit("UPDATE")>> \o Quoted(d.tableName, dialect)
                    \o <<Lit("SET")>>
          body == Between(text, head, Ending(d))
          stop == FirstOf(body, {Lit("RETURNING"), Lit("WHERE")})
          parts == SplitTop(SubSeq(body, 1, stop - 1))
          rest == SubSeq(body, stop, Len(body))
          ret == IF d.returning = <<>> THEN <<>>
                 ELSE <<Lit("RETURNING")>> \o Named(d.returning)
          clauses == SubSeq(rest, Len(ret) + 1, Len(rest))
      IN /\ d.wheres = <<>> => Succeeded(j)
         /\ Succeeded(j) =>
              /\ Frames(text, head, Ending(d))
              /\ Len(parts) = Len(mapping)
              /\ \A i \in 1..Len(parts) :
                   /\ StartsWith(parts[i],
                                 Quoted(mapping[i].key, dialect) \o <<Lit("=")>>)
                   /\ IsNullish(mapping[i].value) =>
                        parts[i][Len(parts[i])] = Lit("NULL")
                   /\ (dialect = "postgres" /\ FirstCall(j)
                         /\ ~IsNullish(mapping[i].value)
                         /\ ~IsArray(mapping[i].value)) =>
                        /\ Len(parts[i]) = 5
                        /\ parts[i][5].k = "ph"
                        /\ parts[i][5].n \in 1..Len(results[j].values)
                        /\ results[j].values[parts[i][5].n]
                             = BoundForm(mapping[i].value, dialect)
              /\ StartsWith(rest, ret)
              /\ Count(text, Lit("RETURNING"))
                   = (IF d.returning = <<>> THEN 0 ELSE 1)
              /\ (d.wheres = <<>>) <=> (clauses = <<>>)
              /\ d.wheres # <<>> => Head(clauses) = Lit("WHERE")
              /\ BoundDuring(j)
                   = BoundForms(LeavesOfAll(SetValues(d)), dialect)
                       \o BoundForms(LeavesOfAll(WhereValues(d)), dialect)

C16_SetReturningWhere ==
  \E j \in Calls :
    /\ Succeeded(j) /\ DialectOf(j) = "postgres"
    /\ HasAssignments(description)
    /\ Len(description.values.records[1]) >= 2
    /\ description.returning # <<>>
    /\ description.wheres # <<>>
    /\ Len(LeavesOfAll(SetValues(description))) >= 1
    /\ Len(LeavesOfAll(WhereValues(description))) >= 1

====
